---- MODULE Spec2Model ----
(***************************************************************************)
(* Rotary phone dial decoder (code.py).  The main loop polls three input   *)
(* lines (off-hook, dial-active, digit-pulse), drives a status LED from    *)
(* the hook line and sends one HID key code per dial rotation.             *)
(*                                                                         *)
(* The program is modelled statement by statement: pc holds the source     *)
(* line about to execute.  The three input lines are variables changed by  *)
(* the environment at any time between two program steps.                  *)
(***************************************************************************)
EXTENDS Integers, Sequences, FiniteSets, TLC

\* ---- bounds ----
MaxCount == 11      \* most pulses counted in one dialing attempt

\* ---- program constants ----
HidOffset == 29     \* 0x1d, added to the pulse count at the send

VARIABLES
    pc,             \* source line about to execute
    ret,            \* call site of the running / latest hookState call
    hookLine,       \* oOffHook.value   (TRUE = off hook)
    dialLine,       \* oDialActive.value (TRUE = dial in use)
    pulseLine,      \* oDigitPulse.value (FALSE = mid-pulse)
    offHook, dialActive, digitPulse, digitCount, numberToReturn,
    LoffHook,       \* local of hookState
    led,            \* oStatusLed.value
    pressed,        \* key codes currently held down on the keyboard
    lastKey,        \* history: <<the last keystroke completed since the hook was last sampled on-hook>>, or <<>>
    lowRuns,        \* history: low periods of the pulse line sampled in this Dialing phase
    prevPulse,      \* history: previous pulse sample of this Dialing phase
    trueSince,      \* history: dial-active was sampled TRUE since the last send
    dialSeen,       \* history: dial-active was ever sampled TRUE
    hungUp,         \* history: hook sampled on-hook in WaitingForDial/Dialing, not yet off-hook in Idle
    firstPulse,     \* history: the first pulse sample of this Dialing phase: "none", "high" or "low"
    aborted,        \* history: an attempt with pulses counted was aborted by the hook since the last release
    firstHook,      \* history: the hook sample of line 155 after a send: "none", "pending", "off" or "on"
    secondHook      \* history: the hook sample of line 122 after that one: "none", "off" or "on"

prog   == <<pc, ret, offHook, dialActive, digitPulse, digitCount, numberToReturn, LoffHook>>
lines  == <<hookLine, dialLine, pulseLine>>
outs   == <<led, pressed>>
hist   == <<lastKey, lowRuns, prevPulse, trueSince, dialSeen, hungUp>>
hist2  == <<firstPulse, aborted, firstHook, secondHook>>
vars   == <<pc, ret, hookLine, dialLine, pulseLine, offHook, dialActive, digitPulse,
            digitCount, numberToReturn, LoffHook, led, pressed, lastKey, lowRuns,
            prevPulse, trueSince, dialSeen, hungUp, firstPulse, aborted,
            firstHook, secondHook>>

\* ---- pure pieces of the code ----

\* the LED driven with the inverted level
HookLedInverted(v) == ~v

\* line 112: the value hookState writes to the LED
HookLedValue(v) == v

\* the Idle loop run while the handset is off hook
IdleLoopNegated(oh) == oh

\* line 125: while (not offHook)
IdleLoopCond(oh) == ~oh

\* the counter left as it is between dialing attempts
CountKept == digitCount

\* line 129: digitCount = 0
CountReset == 0

\* line 131: while (not dialActive)
WaitLoopCond(da) == ~da

\* lines 135 and 156: if not offHook: break
HookBreak(oh) == ~oh

\* the Dialing loop never left through its condition
DialLoopAlways(da) == TRUE

\* the Dialing loop run while the dial is idle
DialLoopNegated(da) == ~da

\* line 138: while (dialActive)
DialLoopCond(da) == da

\* line 141: if (not digitPulse)
PulseDetected(dp) == ~dp

\* line 142: digitCount += 1
NextCount(c) == c + 1

\* no wait for the end of the pulse
BusyWaitNever(dp) == FALSE

\* line 143: while (not digitPulse)
BusyWaitCond(dp) == ~dp

\* the end of the rotation never acted on
EmitNever(da) == FALSE

\* line 147: if (not dialActive)
EmitCond(da) == ~da

\* the count reduced modulo 10 (line 149 enabled) before the offset is added
KeyCodeMod10(n) == (n % 10) + HidOffset

\* line 152: numberToReturn + 0x1d
KeyCode(n) == n + HidOffset

\* line 152 (comment): HID key codes 0x1e..0x26 are the digits 1..9 and
\* 0x27, the tenth, is the digit 0; any other code is not a digit (-1).
HidDigit(code) ==
    IF code = 39 THEN 0
    ELSE IF code \in 30..38 THEN code - 29
    ELSE -1

\* a pulse sample v: one more low period when the previous sample was high
SampleRuns(v) == IF ~v /\ prevPulse THEN lowRuns + 1 ELSE lowRuns

\* ---- phases of the main loop ----
InHookState   == pc \in {"L112", "L113"}
InBusyWait    == pc \in {"L143", "L144"}
InIdle        == pc \in {"L125", "L126"} \/ (InHookState /\ ret = "L126")
InWaiting     == pc \in {"L129", "L130", "L131", "L132", "L134", "L135"}
                    \/ (InHookState /\ ret = "L134")
InDialing     == pc \in {"L138", "L139", "L141", "L142", "L143", "L144", "L146",
                         "L147", "L148", "L152", "L153", "L155", "L156"}
                    \/ (InHookState /\ ret = "L155")

\* lines 72-76 set the variables to 0 (FALSE); a pin switched to output
\* (line 99) drives FALSE; no key is down after line 101
Init ==
    /\ pc = "L122"
    /\ ret = "L122"
    /\ hookLine \in BOOLEAN
    /\ dialLine \in BOOLEAN
    /\ pulseLine \in BOOLEAN
    /\ offHook = FALSE
    /\ dialActive = FALSE
    /\ digitPulse = FALSE
    /\ digitCount = 0
    /\ numberToReturn = 0
    /\ LoffHook = FALSE
    /\ led = FALSE
    /\ pressed = {}
    /\ lastKey = <<>>
    /\ lowRuns = 0
    /\ prevPulse = TRUE
    /\ trueSince = FALSE
    /\ dialSeen = FALSE
    /\ hungUp = FALSE
    /\ firstPulse = "none"
    /\ aborted = FALSE
    /\ firstHook = "none"
    /\ secondHook = "none"

\* ---- hookState ----

\* a call of hookState from line site: line 110, LoffHook = oOffHook.value
CallHookState(site) ==
    /\ pc = site
    /\ LoffHook' = hookLine
    /\ ret' = site
    /\ pc' = "L112"
    /\ UNCHANGED <<offHook, dialActive, digitPulse, digitCount, numberToReturn>>
    /\ UNCHANGED <<lines, outs, hist>>
    /\ firstHook' = IF site = "L126" THEN "none" ELSE firstHook
    /\ secondHook' = IF site = "L126" THEN "none" ELSE secondHook
    /\ UNCHANGED <<firstPulse, aborted>>

\* line 112 (after the sleep of line 111): oStatusLed.value = LoffHook
L112 ==
    /\ pc = "L112"
    /\ led' = HookLedValue(LoffHook)
    /\ pc' = "L113"
    /\ UNCHANGED <<ret, offHook, dialActive, digitPulse, digitCount, numberToReturn, LoffHook>>
    /\ UNCHANGED <<lines, pressed, hist>>
    /\ UNCHANGED hist2

\* line 113 and the assignment at the call site: offHook = hookState()
L113 ==
    /\ pc = "L113"
    /\ offHook' = LoffHook
    /\ pc' = CASE ret = "L122" -> "L123"
               [] ret = "L126" -> "L125"
               [] ret = "L134" -> "L135"
               [] ret = "L155" -> "L156"
    /\ hungUp' = IF ret \in {"L134", "L155"} /\ ~LoffHook THEN TRUE
                 ELSE IF ret \in {"L122", "L126"} /\ LoffHook THEN FALSE
                 ELSE hungUp
    /\ lastKey' = IF LoffHook THEN lastKey ELSE <<>>
    /\ UNCHANGED <<ret, dialActive, digitPulse, digitCount, numberToReturn, LoffHook>>
    /\ UNCHANGED <<lines, outs, lowRuns, prevPulse, trueSince, dialSeen>>
    /\ firstHook' = IF ret = "L155" /\ firstHook = "pending"
                    THEN (IF LoffHook THEN "off" ELSE "on") ELSE firstHook
    /\ secondHook' = IF ret = "L122" /\ firstHook \in {"off", "on"}
                     THEN (IF LoffHook THEN "off" ELSE "on") ELSE secondHook
    /\ UNCHANGED <<firstPulse, aborted>>

\* ---- main loop ----

L122 == CallHookState("L122")

L123 ==
    /\ pc = "L123"
    /\ led' = offHook
    /\ pc' = "L125"
    /\ UNCHANGED <<ret, offHook, dialActive, digitPulse, digitCount, numberToReturn, LoffHook>>
    /\ UNCHANGED <<lines, pressed, hist>>
    /\ UNCHANGED hist2

L125 ==
    /\ pc = "L125"
    /\ pc' = IF IdleLoopCond(offHook) THEN "L126" ELSE "L129"
    /\ UNCHANGED <<ret, offHook, dialActive, digitPulse, digitCount, numberToReturn, LoffHook>>
    /\ UNCHANGED <<lines, outs, hist>>
    /\ UNCHANGED hist2

L126 == CallHookState("L126")

L129 ==
    /\ pc = "L129"
    /\ digitCount' = CountReset
    /\ pc' = "L130"
    /\ UNCHANGED <<ret, offHook, dialActive, digitPulse, numberToReturn, LoffHook>>
    /\ UNCHANGED <<lines, outs, hist>>
    /\ firstHook' = "none"
    /\ secondHook' = "none"
    /\ UNCHANGED <<firstPulse, aborted>>

\* a sample of the dial-active line at line site
SampleDial(site, next) ==
    /\ pc = site
    /\ dialActive' = dialLine
    /\ pc' = next
    /\ trueSince' = (trueSince \/ dialLine)
    /\ dialSeen' = (dialSeen \/ dialLine)
    /\ UNCHANGED <<ret, offHook, digitPulse, digitCount, numberToReturn, LoffHook>>
    /\ UNCHANGED <<lines, outs, lastKey, lowRuns, prevPulse, hungUp>>
    /\ UNCHANGED hist2

L130 == SampleDial("L130", "L131")

\* leaving the WaitingForDial loop for line 138 starts a new Dialing phase
L131 ==
    /\ pc = "L131"
    /\ IF WaitLoopCond(dialActive)
         THEN pc' = "L132" /\ UNCHANGED <<lowRuns, prevPulse>>
         ELSE pc' = "L138" /\ lowRuns' = 0 /\ prevPulse' = TRUE
    /\ UNCHANGED <<ret, offHook, dialActive, digitPulse, digitCount, numberToReturn, LoffHook>>
    /\ UNCHANGED <<lines, outs, lastKey, trueSince, dialSeen, hungUp>>
    /\ firstPulse' = IF WaitLoopCond(dialActive) THEN firstPulse ELSE "none"
    /\ UNCHANGED <<aborted, firstHook, secondHook>>

L132 == SampleDial("L132", "L134")

L134 == CallHookState("L134")

\* break leaves the while of line 131 only: execution continues at line 138
L135 ==
    /\ pc = "L135"
    /\ IF HookBreak(offHook)
         THEN pc' = "L138" /\ lowRuns' = 0 /\ prevPulse' = TRUE
         ELSE pc' = "L131" /\ UNCHANGED <<lowRuns, prevPulse>>
    /\ UNCHANGED <<ret, offHook, dialActive, digitPulse, digitCount, numberToReturn, LoffHook>>
    /\ UNCHANGED <<lines, outs, lastKey, trueSince, dialSeen, hungUp>>
    /\ firstPulse' = IF HookBreak(offHook) THEN "none" ELSE firstPulse
    /\ UNCHANGED <<aborted, firstHook, secondHook>>

L138 ==
    /\ pc = "L138"
    /\ pc' = IF DialLoopCond(dialActive) THEN "L139" ELSE "L122"
    /\ UNCHANGED <<ret, offHook, dialActive, digitPulse, digitCount, numberToReturn, LoffHook>>
    /\ UNCHANGED <<lines, outs, hist>>
    /\ UNCHANGED hist2

\* a sample of the pulse line at line site
SamplePulse(site, next) ==
    /\ pc = site
    /\ digitPulse' = pulseLine
    /\ pc' = next
    /\ lowRuns' = SampleRuns(pulseLine)
    /\ prevPulse' = pulseLine
    /\ UNCHANGED <<ret, offHook, dialActive, digitCount, numberToReturn, LoffHook>>
    /\ UNCHANGED <<lines, outs, lastKey, trueSince, dialSeen, hungUp>>
    /\ firstPulse' = IF firstPulse = "none"
                     THEN (IF pulseLine THEN "high" ELSE "low") ELSE firstPulse
    /\ UNCHANGED <<aborted, firstHook, secondHook>>

L139 == SamplePulse("L139", "L141")

L141 ==
    /\ pc = "L141"
    /\ pc' = IF PulseDetected(digitPulse) THEN "L142" ELSE "L146"
    /\ UNCHANGED <<ret, offHook, dialActive, digitPulse, digitCount, numberToReturn, LoffHook>>
    /\ UNCHANGED <<lines, outs, hist>>
    /\ UNCHANGED hist2

L142 ==
    /\ pc = "L142"
    /\ digitCount' = NextCount(digitCount)
    /\ pc' = "L143"
    /\ UNCHANGED <<ret, offHook, dialActive, digitPulse, numberToReturn, LoffHook>>
    /\ UNCHANGED <<lines, outs, hist>>
    /\ UNCHANGED hist2

L143 ==
    /\ pc = "L143"
    /\ pc' = IF BusyWaitCond(digitPulse) THEN "L144" ELSE "L146"
    /\ UNCHANGED <<ret, offHook, dialActive, digitPulse, digitCount, numberToReturn, LoffHook>>
    /\ UNCHANGED <<lines, outs, hist>>
    /\ UNCHANGED hist2

L144 == SamplePulse("L144", "L143")

L146 == SampleDial("L146", "L147")

L147 ==
    /\ pc = "L147"
    /\ pc' = IF EmitCond(dialActive) THEN "L148" ELSE "L155"
    /\ UNCHANGED <<ret, offHook, dialActive, digitPulse, digitCount, numberToReturn, LoffHook>>
    /\ UNCHANGED <<lines, outs, hist>>
    /\ UNCHANGED hist2

L148 ==
    /\ pc = "L148"
    /\ numberToReturn' = digitCount
    /\ pc' = "L152"
    /\ UNCHANGED <<ret, offHook, dialActive, digitPulse, digitCount, LoffHook>>
    /\ UNCHANGED <<lines, outs, hist>>
    /\ UNCHANGED hist2

\* line 152: kbd.send(numberToReturn + 0x1d)
L152 ==
    /\ pc = "L152"
    /\ pressed' = pressed \cup {KeyCode(numberToReturn)}
    /\ trueSince' = FALSE
    /\ pc' = "L153"
    /\ UNCHANGED <<ret, offHook, dialActive, digitPulse, digitCount, numberToReturn, LoffHook>>
    /\ UNCHANGED <<lines, led, lastKey, lowRuns, prevPulse, dialSeen, hungUp>>
    /\ firstHook' = "pending"
    /\ secondHook' = "none"
    /\ UNCHANGED <<firstPulse, aborted>>

\* line 153: kbd.release_all()
L153 ==
    /\ pc = "L153"
    /\ pressed' = {}
    /\ lastKey' = <<[code |-> KeyCode(numberToReturn), lows |-> lowRuns]>>
    /\ pc' = "L155"
    /\ UNCHANGED <<ret, offHook, dialActive, digitPulse, digitCount, numberToReturn, LoffHook>>
    /\ UNCHANGED <<lines, led, lowRuns, prevPulse, trueSince, dialSeen, hungUp>>
    /\ aborted' = FALSE
    /\ UNCHANGED <<firstPulse, firstHook, secondHook>>

L155 == CallHookState("L155")

\* break leaves the while of line 138, the last statement of the outer loop
L156 ==
    /\ pc = "L156"
    /\ pc' = IF HookBreak(offHook) THEN "L122" ELSE "L138"
    /\ UNCHANGED <<ret, offHook, dialActive, digitPulse, digitCount, numberToReturn, LoffHook>>
    /\ UNCHANGED <<lines, outs, hist>>
    /\ aborted' = (aborted \/ (HookBreak(offHook) /\ dialActive /\ digitCount > 0))
    /\ UNCHANGED <<firstPulse, firstHook, secondHook>>

\* ---- environment: the three input lines ----

HookChange ==
    /\ hookLine' = ~hookLine
    /\ UNCHANGED <<prog, dialLine, pulseLine, outs, hist>>
    /\ UNCHANGED hist2

DialChange ==
    /\ dialLine' = ~dialLine
    /\ UNCHANGED <<prog, hookLine, pulseLine, outs, hist>>
    /\ UNCHANGED hist2

\* a pulse begins; at most MaxCount pulses are counted in one attempt
PulseFall ==
    /\ pulseLine
    /\ digitCount < MaxCount
    /\ pulseLine' = FALSE
    /\ UNCHANGED <<prog, hookLine, dialLine, outs, hist>>
    /\ UNCHANGED hist2

PulseRise ==
    /\ ~pulseLine
    /\ pulseLine' = TRUE
    /\ UNCHANGED <<prog, hookLine, dialLine, outs, hist>>
    /\ UNCHANGED hist2

Step ==
    \/ L112 \/ L113 \/ L122 \/ L123 \/ L125 \/ L126 \/ L129 \/ L130 \/ L131
    \/ L132 \/ L134 \/ L135 \/ L138 \/ L139 \/ L141 \/ L142 \/ L143 \/ L144
    \/ L146 \/ L147 \/ L148 \/ L152 \/ L153 \/ L155 \/ L156

Env == HookChange \/ DialChange \/ PulseFall \/ PulseRise

Next == Step \/ Env

Spec == Init /\ [][Next]_vars

\* the interpreter keeps running the loop
FairSpec == Spec /\ WF_vars(Step)

TypeOK ==
    /\ pc \in {"L112", "L113", "L122", "L123", "L125", "L126", "L129", "L130",
               "L131", "L132", "L134", "L135", "L138", "L139", "L141", "L142",
               "L143", "L144", "L146", "L147", "L148", "L152", "L153", "L155", "L156"}
    /\ ret \in {"L122", "L126", "L134", "L155"}
    /\ digitCount \in 0..MaxCount
    /\ numberToReturn \in 0..MaxCount
    /\ lowRuns \in 0..MaxCount
    /\ Len(lastKey) <= 1
    /\ firstPulse \in {"none", "high", "low"}
    /\ firstHook \in {"none", "pending", "off", "on"}
    /\ secondHook \in {"none", "off", "on"}

\* ---- properties ----

\* lines at which a sensor line is read
SamplePcs == {"L122", "L126", "L134", "L155", "L130", "L132", "L146", "L139", "L144"}

\* a low pulse sample has been taken in Dialing and no high one since
LowSampled == pc \in {"L141", "L142", "L143", "L144"} /\ ~digitPulse

\* C1: when a rotation in which n low periods (n in 1..10) of the pulse line
\* were sampled ends, the one key held down after the send is 0x1d + n,
\* which is the HID code of the digit n mod 10.
C1_DigitForPulseCount ==
    (pc = "L153" /\ lowRuns \in 1..10) =>
        /\ pressed = {29 + lowRuns}
        /\ \A k \in pressed : HidDigit(k) = lowRuns % 10

C1_Witness ==
    pc = "L153" /\ lowRuns = 10 /\ pressed = {39} /\ offHook /\ ~hungUp

\* C2: once the hook has been sampled on-hook in WaitingForDial or Dialing,
\* no key is sent until the hook has been sampled off-hook again in Idle.
C2_NoSendAfterHangUp ==
    pc = "L153" => ~hungUp

\* C3: every send follows a sample of dial-active that read true and was
\* taken after the previous send, and the key sent is released before any
\* further sensor sample; never more than one key is down.
C3_OneSendPerRotation ==
    /\ (pc \in {"L148", "L152"} \/ (pc = "L147" /\ ~dialActive)) => trueSince
    /\ pc \in SamplePcs => pressed = {}
    /\ pc = "L153" => Cardinality(pressed) = 1

C3_Witness ==
    pc = "L152" /\ trueSince /\ lastKey # <<>> /\ pressed = {}

\* C4: within one off-hook session a rotation of m pulses followed by one of
\* n pulses (m, n in 1..10) sends the key of digit m mod 10 and then the key
\* of digit n mod 10, and the counter is 0 while waiting for the next dial.
C4_SequentialRotations ==
    /\ (pc = "L153" /\ lastKey # <<>> /\ lastKey[1].lows \in 1..10 /\ lowRuns \in 1..10) =>
          /\ HidDigit(lastKey[1].code) = lastKey[1].lows % 10
          /\ \A k \in pressed : HidDigit(k) = lowRuns % 10
          /\ pressed # {}
    /\ (pc \in {"L130", "L131", "L132", "L134", "L135"} \/ (InHookState /\ ret = "L134"))
          => digitCount = 0

C4_Witness ==
    /\ pc = "L153" /\ lastKey # <<>> /\ lastKey[1].lows = 5 /\ lastKey[1].code = 34
    /\ lowRuns = 7 /\ pressed = {36} /\ ~hungUp

\* C5: a rotation in which no low pulse sample was taken sends no key.
C5_NoZeroPulseSend ==
    pc = "L153" => lowRuns > 0

\* C6: every key code sent is the code of a digit, 0x1e..0x27.
C6_SentIsDigit ==
    \A k \in pressed : k \in 30..39

\* C7: outside hookState the LED equals offHook, the latest hook sample, and
\* every write to the LED writes the latest hook sample.
C7_LedIsLatestSample ==
    /\ [](~InHookState => (led = offHook /\ offHook = LoffHook))
    /\ [][(pc \in {"L112", "L123"} /\ pc' # pc) => (led' = LoffHook')]_vars

C7_Witness ==
    pc = "L156" /\ ~led /\ ~offHook /\ hookLine

\* C8: as long as no sample of dial-active has read true, no send is reached
\* and no key has been pressed, however often the hook changes.
C8_NoDialNoSend ==
    ~dialSeen => (pc \notin {"L148", "L152", "L153"} /\ pressed = {} /\ lastKey = <<>>)

C8_Witness ==
    ~dialSeen /\ hungUp /\ pc = "L113" /\ ret = "L126" /\ LoffHook

\* C9: after a low pulse sample in Dialing, every step taken while the pulse
\* line is and stays low leaves the decoder in the busy-wait: no hook or
\* dial-active sample, no LED write, no keystroke, no abort.
C9_StuckPulseHangs ==
    [][(LowSampled /\ ~pulseLine /\ ~pulseLine') =>
          (LowSampled' /\ UNCHANGED <<offHook, LoffHook, dialActive, led, pressed, lastKey>>)]_vars

C9_Witness ==
    pc = "L144" /\ ~digitPulse /\ ~pulseLine /\ ~hookLine /\ offHook /\ led

\* C10 as stated: if the hook line changes and then stays at a value, the
\* LED eventually has that value for good, whatever the other lines do.
C10_LedFollowsHook ==
    \A v \in BOOLEAN : <>[](hookLine = v) => <>[](led = v)

\* C10 amended: the same, provided the decoder does not stay for ever in the
\* pulse busy-wait of lines 143-144.
C10_LedFollowsHookUnlessStuck ==
    \A v \in BOOLEAN : (<>[](hookLine = v) /\ []<>(~InBusyWait)) => <>[](led = v)

C10_Witness ==
    pc = "L156" /\ ret = "L155" /\ ~led /\ ~hookLine /\ ~offHook

\* lines of the Dialing loop at which a pulse sample is taken or counted
PulsePcs == {"L139", "L141", "L142", "L143", "L144"}

\* lines of the Dialing loop after the pulse handling of an iteration
AfterPulsePcs == {"L146", "L147", "L148", "L152", "L153", "L155", "L156"}

\* C11 as stated: every increment of the counter follows a low pulse sample
\* whose preceding pulse sample of the same Dialing phase read high.
C11_IncrementOnSampledEdge ==
    pc = "L142" => ~(firstPulse = "low" /\ lowRuns = 1)

\* C11 amended: the counter equals the number of low periods sampled in this
\* Dialing phase, a low first sample of the phase starting a period like a low
\* sample after a high one; no dial-active or hook sample is taken in Dialing
\* unless the latest pulse sample read high.
C11_OncePerLowPeriod ==
    /\ (pc \in {"L141", "L142"} /\ ~digitPulse) => digitCount + 1 = lowRuns
    /\ (pc \in {"L141", "L142"} /\ digitPulse) => digitCount = lowRuns
    /\ (pc \in {"L143", "L144"} \cup AfterPulsePcs \/ (InHookState /\ ret = "L155"))
          => digitCount = lowRuns
    /\ (pc \in AfterPulsePcs \/ (InHookState /\ ret = "L155")) => (digitPulse /\ prevPulse)

C11_Witness ==
    pc = "L146" /\ digitCount = 3 /\ lowRuns = 3 /\ firstPulse = "low" /\ dialActive

\* C12: the counter is 0 whenever the Dialing loop is entered, and the
\* rotation completed after an aborted attempt sends the key of its own
\* number of sampled low periods.
C12_AbortDiscardsCount ==
    /\ [][(pc \in {"L131", "L135"} /\ pc' = "L138") => digitCount' = 0]_vars
    /\ [](( pc = "L153" /\ aborted) => pressed = {29 + lowRuns})

C12_Witness ==
    pc = "L153" /\ aborted /\ lowRuns = 3 /\ pressed = {32}

\* C13 as stated: after a send the decoder goes to WaitingForDial if the next
\* hook sample (line 155) reads off-hook and to the Idle loop if it reads
\* on-hook.
C13_NextHookSampleDecides ==
    /\ firstHook = "off" => pc # "L126"
    /\ firstHook = "on" => pc # "L129"

\* C13 amended: after a send no pulse or dial-active sample is taken before
\* the decoder is back at line 122; the hook is sampled at line 155 and again
\* at line 122, and the decoder goes to WaitingForDial, with the counter reset
\* to 0, if the sample of line 122 reads off-hook and to the Idle loop if it
\* reads on-hook.
C13_SecondHookSampleDecides ==
    /\ firstHook # "none" => pc \notin (PulsePcs \cup {"L146", "L147", "L148", "L152"})
    /\ (firstHook # "none" /\ pc \in {"L126", "L129"}) => secondHook # "none"
    /\ (secondHook # "none" /\ pc = "L129") => secondHook = "off"
    /\ (secondHook # "none" /\ pc = "L126") => secondHook = "on"
    /\ pc = "L130" => digitCount = 0

C13_Witness ==
    pc = "L129" /\ firstHook = "on" /\ secondHook = "off"

\* C14: no pulse sample or pulse count follows an on-hook sample taken in
\* WaitingForDial before the hook has been sampled off-hook again in Idle.
C14_NoPulseAfterHangUp ==
    pc \in PulsePcs => ~hungUp

\* C15: the send is executed only while offHook, the latest hook sample, is
\* true.
C15_SendOnlyOffHook ==
    pc = "L152" => offHook

\* C16: if the handset is off-hook throughout, dial-active eventually stays
\* false and no pulse busy-wait lasts for ever, then once dial-active has been
\* sampled true a key is eventually sent, and after the send the decoder is
\* eventually waiting for the next dial.
C16_RotationReported ==
    ([]hookLine /\ <>[](~dialLine) /\ []<>(~InBusyWait)) =>
        ((trueSince ~> (pc = "L153")) /\ ((pc = "L153") ~> (pc = "L130")))

C16_Witness ==
    pc = "L130" /\ lastKey # <<>> /\ lastKey[1].lows = 3 /\ offHook /\ hookLine /\ ~dialLine

\* C17: the Idle loop runs only while the hook was sampled on-hook, and a
\* step taken in Idle, whatever the dial-active and pulse lines do, changes
\* neither dialActive, digitPulse, digitCount, numberToReturn nor the keys
\* pressed.
C17_IdleReadsHookOnly ==
    /\ [](pc = "L126" => ~offHook)
    /\ [][InIdle => UNCHANGED <<dialActive, digitPulse, digitCount, numberToReturn, pressed>>]_vars

C17_Witness ==
    pc = "L126" /\ ~offHook /\ dialLine /\ ~pulseLine /\ ~dialActive /\ digitCount = 2
====
